---- MODULE Spec2Model ----
(***************************************************************************)
(* Verification model of the smart-search IR system:                       *)
(*   structures/b_plus_tree.py  (document store)                           *)
(*   structures/trie.py         (autocomplete vocabulary)                  *)
(*   utils/sorter.py            (merge sort of result records)             *)
(*   structures/graph.py        (citation graph, PageRank)                 *)
(*   engine.py                  (indexing, search, autocomplete)           *)
(* Each component has its own specification (SpecTree, SpecTrie, SpecSort, *)
(* SpecGraph, SpecRank, SpecEngine) over the shared variable tuple; the    *)
(* variables a specification does not use stay at their initial value.     *)
(***************************************************************************)
EXTENDS Integers, Sequences, FiniteSets, TLC

\* ------------------------------------------------------------------ bounds
MaxKey == 5          \* B+Tree keys are drawn from 1..MaxKey
Vals == {[title |-> 1], [title |-> 2]}   \* two metadata dictionaries
DefaultOrder == 4    \* BPlusTree.__init__(order=4)
Orders == {3, DefaultOrder}   \* orders the tree is constructed with

None == 0            \* Python None where a key or a node is expected (both >= 1)
NoValue == <<>>      \* Python None where a metadata dictionary is expected

\* ------------------------------------------------------- Python list helpers
\* list.insert(pos, x) with a 0-based position
ListInsert(s, pos, x) ==
    SubSeq(s, 1, pos) \o <<x>> \o SubSeq(s, pos + 1, Len(s))

\* s[a:] and s[:b] with 0-based slice bounds
SliceFrom(s, a) == SubSeq(s, a + 1, Len(s))
SliceTo(s, b) == SubSeq(s, 1, b)

Range(s) == {s[i] : i \in 1..Len(s)}

\* =====================================================================
\* Floating-point numbers
\* =====================================================================
\* Python's float is IEEE 754: every operation rounds its exact result to
\* the nearest representable number, ties to even.  The model keeps that
\* rule and carries 24 significant bits (binary32) where Python carries 53.
\* A float >= 0 is stored as its bit pattern, exponent * 2^23 + fraction:
\* 0 is 0.0, and the order of the integers is the order of the floats.
\* Each operation is a function, applied by the operator of the same name:
\* the arguments of a function are values, computed once.
MantissaBits == 24
ExponentBias == 127
Hidden == 2^(MantissaBits - 1)
Limb == 2^(MantissaBits \div 2)

\* the significand and the exponent of a float f > 0: f = Mant(f) * 2^Exp(f)
Mant(f) == Hidden + (f % Hidden)
Exp(f) == (f \div Hidden) - ExponentBias - (MantissaBits - 1)
Pack(m, e) == (e + MantissaBits - 1 + ExponentBias) * Hidden + (m - Hidden)

\* the number of bits of n, given that it has at most k
BitLenBelowFn[n \in Int, k \in Int] ==
    IF n >= 2^(k - 1) THEN k ELSE BitLenBelowFn[n, k - 1]
BitLenBelow(n, k) == BitLenBelowFn[n, k]

\* the number of bits of n, 0 < n < 2^31
BitLen(n) ==
    IF n >= 2^24 THEN BitLenBelow(n, 31)
    ELSE IF n >= 2^16 THEN BitLenBelow(n, 24)
    ELSE IF n >= 2^8 THEN BitLenBelow(n, 16)
    ELSE BitLenBelow(n, 8)

\* the float nearest to n * 2^e (n > 0); sticky says that the exact value
\* lies strictly between n * 2^e and (n + 1) * 2^e
RoundPackFn[n \in Int, e \in Int, sticky \in BOOLEAN] ==
    LET k == BitLen(n) - MantissaBits
    IN IF k <= 0 THEN Pack(n * 2^(0 - k), e + k)
       ELSE LET q == n \div 2^k
                r == n % 2^k
                half == 2^(k - 1)
                up == r > half \/ (r = half /\ (sticky \/ (q % 2) = 1))
            IN IF ~up THEN Pack(q, e + k)
               ELSE IF q + 1 = 2 * Hidden THEN Pack(Hidden, e + k + 1)
               ELSE Pack(q + 1, e + k)
RoundPack(n, e, sticky) == RoundPackFn[n, e, sticky]

\* float(i) for an integer 0 <= i < 2^24
FromInt(i) == IF i = 0 THEN 0 ELSE RoundPack(i, 0, FALSE)

\* a + b
FAddFn[a \in Int, b \in Int] ==
    IF a = 0 THEN b ELSE IF b = 0 THEN a
    ELSE LET x == IF a >= b THEN a ELSE b
             y == IF a >= b THEN b ELSE a
             d == Exp(x) - Exp(y)
         IN IF d > MantissaBits + 2 THEN x
            ELSE LET ys == Mant(y) * 8
                 IN RoundPack(Mant(x) * 8 + (ys \div 2^d), Exp(x) - 3,
                              (ys % 2^d) # 0)
FAdd(a, b) == FAddFn[a, b]

\* abs(a - b)
FAbsDiffFn[a \in Int, b \in Int] ==
    IF a = b THEN 0 ELSE
    LET x == IF a >= b THEN a ELSE b
        y == IF a >= b THEN b ELSE a
    IN IF y = 0 THEN x
       ELSE LET d == Exp(x) - Exp(y)
            IN IF d > MantissaBits + 2 THEN x
               ELSE LET ys == Mant(y) * 8
                        lost == (ys % 2^d) # 0
                    IN RoundPack(Mant(x) * 8 - (ys \div 2^d) - (IF lost THEN 1 ELSE 0),
                                 Exp(x) - 3, lost)
FAbsDiff(a, b) == FAbsDiffFn[a, b]

\* a * b: the 48-bit product of the significands, by halves
FMulFn[a \in Int, b \in Int] ==
    IF a = 0 \/ b = 0 THEN 0
    ELSE LET a1 == Mant(a) \div Limb
             a0 == Mant(a) % Limb
             b1 == Mant(b) \div Limb
             b0 == Mant(b) % Limb
             lo == a0 * b0
             c1 == (lo \div Limb) + a1 * b0 + a0 * b1
             high == (c1 \div Limb) + a1 * b1
             low == (c1 % Limb) * Limb + (lo % Limb)
             cut == 2^(MantissaBits - 2)
         IN RoundPack(high * 4 + (low \div cut), Exp(a) + Exp(b) + MantissaBits - 2,
                      (low % cut) # 0)
FMul(a, b) == FMulFn[a, b]

\* long division: n holds the quotient bits produced so far, r the
\* remainder, s the number of bits produced after the binary point
LongDivFn[n \in Int, r \in Int, j \in Int, s \in Int] ==
    IF n >= 4 * Hidden * 2 THEN [n |-> n, r |-> r, s |-> s]
    ELSE IF 2 * r >= j THEN LongDivFn[2 * n + 1, 2 * r - j, j, s + 1]
    ELSE LongDivFn[2 * n, 2 * r, j, s + 1]
LongDiv(n, r, j, s) == LongDivFn[n, r, j, s]

\* a / j for a float a and an integer 0 < j < 2^20
FDivIntFn[a \in Int, j \in Int] ==
    IF a = 0 THEN 0
    ELSE LET d == LongDiv(Mant(a) \div j, Mant(a) % j, j, 0)
         IN RoundPack(d.n, Exp(a) - d.s, d.r # 0)
FDivInt(a, j) == FDivIntFn[a, j]

\* =====================================================================
\* B+Tree (structures/b_plus_tree.py)
\* =====================================================================
\* =====================================================================
\* Trie (structures/trie.py)
\* =====================================================================
\* Characters are code points; a string is a sequence of code points.
WordLens == 0..2     \* the lengths of inserted words and of prefixes
MaxWords == 3        \* at most this many distinct words are inserted
MaxLimit == 2        \* autocomplete limits are drawn from 0..MaxLimit

Chars == {65, 97, 98}     \* "A", "a", "b"

\* all strings over cs with a length in lens
Strings(cs, lens) == UNION {[1..m -> cs] : m \in lens}

\* str.lower() on one character and on a string
LowerChar(c) == IF c \in 65..90 THEN c + 32 ELSE c
lower(w) == [i \in 1..Len(w) |-> LowerChar(w[i])]

\* str.startswith
StartsWith(w, p) == Len(p) <= Len(w) /\ SubSeq(w, 1, Len(p)) = p

\* Python's str ordering: by code point, a proper prefix comes first
RECURSIVE StrLess(_, _)
StrLess(a, b) ==
    IF Len(b) = 0 THEN FALSE
    ELSE IF Len(a) = 0 THEN TRUE
    ELSE IF a[1] # b[1] THEN a[1] < b[1]
    ELSE StrLess(Tail(a), Tail(b))

\* Trie.__init__: the root node alone. A node is named by the path of
\* characters leading to it: children[c] of node n exists iff n \o <<c>> is
\* a node; ends holds the nodes with is_end_of_word set.
EmptyTrie == [nodes |-> {<<>>}, ends |-> {}]

\* variant: the word is stored as it is given, without lower()
Trie_insert_caseKept(t, word) ==
    [nodes |-> t.nodes \cup {SubSeq(word, 1, i) : i \in 0..Len(word)},
     ends |-> t.ends \cup {word}]

\* Trie.insert
Trie_insert(t, word) ==
    LET w == lower(word)
    IN [nodes |-> t.nodes \cup {SubSeq(w, 1, i) : i \in 0..Len(w)},
        ends |-> t.ends \cup {w}]

\* Trie._search_prefix: the node at the end of the prefix, if every step
\* finds a child
search_prefix(t, prefix) ==
    LET p == lower(prefix)
    IN IF \A i \in 1..Len(p) : SubSeq(p, 1, i) \in t.nodes
       THEN [found |-> TRUE, node |-> p]
       ELSE [found |-> FALSE, node |-> <<>>]

\* the characters of node.children, as a sequence (the dict's iteration
\* order is the order of first insertion; ascending order stands for it,
\* since the collected list is sorted before use)
RECURSIVE SetToSeq(_)
SetToSeq(S) ==
    IF S = {} THEN <<>>
    ELSE LET m == CHOOSE x \in S : \A y \in S : x <= y
         IN <<m>> \o SetToSeq(S \ {m})

ChildChars(t, node) ==
    SetToSeq({c \in 0..127 : Append(node, c) \in t.nodes})

RECURSIVE collect_words(_, _, _, _)
RECURSIVE CollectChildren(_, _, _, _, _)
\* the for loop of Trie._collect_words over the children cs of node
CollectChildren(t, node, prefix, words, cs) ==
    IF cs = <<>> THEN words
    ELSE CollectChildren(t, node, prefix,
             collect_words(t, Append(node, cs[1]), Append(prefix, cs[1]), words),
             Tail(cs))

\* mutant: every node met is taken for a word, is_end_of_word is not read
collect_words_noEndCheck(t, node, prefix, words) ==
    CollectChildren(t, node, prefix, Append(words, prefix), ChildChars(t, node))

\* Trie._collect_words: words is the list collected so far
collect_words(t, node, prefix, words) ==
    CollectChildren(t, node, prefix,
        IF node \in t.ends THEN Append(words, prefix) ELSE words,
        ChildChars(t, node))

\* list.sort() on a list of strings (stable insertion into a sorted list)
RECURSIVE SortWords(_)
SortInsert(sorted, w) ==
    LET n == Cardinality({i \in 1..Len(sorted) : ~StrLess(w, sorted[i])})
    IN SubSeq(sorted, 1, n) \o <<w>> \o SubSeq(sorted, n + 1, Len(sorted))
SortWords(ws) ==
    IF ws = <<>> THEN <<>>
    ELSE SortInsert(SortWords(SubSeq(ws, 1, Len(ws) - 1)), ws[Len(ws)])

\* words[:limit] for limit >= 0
Take(ws, limit) == SubSeq(ws, 1, IF limit < Len(ws) THEN limit ELSE Len(ws))

\* Trie.autocomplete
Trie_autocomplete(t, prefix, limit) ==
    LET node == search_prefix(t, prefix)
    IN IF ~node.found THEN <<>>
       ELSE Take(SortWords(collect_words(t, node.node, lower(prefix), <<>>)), limit)

\* =====================================================================
\* Merge sort (utils/sorter.py)
\* =====================================================================
MaxSortLen == 4      \* sort_results is given lists of at most this length
MaxScore == 3        \* the scores of the sorted records are drawn from 1..MaxScore

RECURSIVE MergeLoop(_, _, _, _, _)
\* the three while loops of merge, from positions i, j (0-based) on
MergeLoop(left, right, i, j, result) ==
    IF i < Len(left) /\ j < Len(right)
    THEN IF left[i + 1].score >= right[j + 1].score
         THEN MergeLoop(left, right, i + 1, j, Append(result, left[i + 1]))
         ELSE MergeLoop(left, right, i, j + 1, Append(result, right[j + 1]))
    ELSE result \o SliceFrom(left, i) \o SliceFrom(right, j)

RECURSIVE MergeLoop_strict(_, _, _, _, _)
MergeLoop_strict(left, right, i, j, result) ==
    IF i < Len(left) /\ j < Len(right)
    THEN IF left[i + 1].score > right[j + 1].score
         THEN MergeLoop_strict(left, right, i + 1, j, Append(result, left[i + 1]))
         ELSE MergeLoop_strict(left, right, i, j + 1, Append(result, right[j + 1]))
    ELSE result \o SliceFrom(left, i) \o SliceFrom(right, j)

\* mutant: the left head is taken only when its score is strictly greater
merge_strict(left, right) == MergeLoop_strict(left, right, 0, 0, <<>>)

\* merge
merge(left, right) == MergeLoop(left, right, 0, 0, <<>>)

RECURSIVE merge_sort(_)
\* merge_sort
merge_sort(arr) ==
    IF Len(arr) <= 1 THEN arr
    ELSE LET mid == Len(arr) \div 2
             left_sorted == merge_sort(SliceTo(arr, mid))
             right_sorted == merge_sort(SliceFrom(arr, mid))
         IN merge(left_sorted, right_sorted)

\* sort_results
sort_results(results_list) ==
    IF Len(results_list) = 0 THEN <<>> ELSE merge_sort(results_list)

VARIABLES
    sort_in,    \* the list handed to sort_results
    sort_out,   \* the list it returned
    sort_pc     \* "call" before sort_results has run, "done" after

VARIABLES
    trie,       \* Trie.root and the nodes below it
    inserted,   \* history: the set W of words passed to Trie.insert
    tlast       \* history: the last call of Trie.insert

VARIABLES
    order,      \* BPlusTree.order
    nodes,      \* the heap of tree nodes: node id -> LeafNode / InternalNode
    root,       \* BPlusTree.root (a node id)
    written,    \* history: key -> value of the last insert(key, value), NoValue if never
    last        \* history: the last BPlusTree.insert call and what it did

\* LeafNode.__init__ / InternalNode.__init__
LeafNode == [kind |-> "leaf", keys |-> <<>>, values |-> <<>>,
             children |-> <<>>, next_leaf |-> None]
InternalNode == [kind |-> "internal", keys |-> <<>>, values |-> <<>>,
                 children |-> <<>>, next_leaf |-> None]

\* LeafNode.is_full / InternalNode.is_full
is_full(node) == Len(node.keys) >= order

\* the while loop of LeafNode.insert: first 0-based pos with keys[pos] >= key
LeafPos(keys, key) ==
    IF \E p \in 1..Len(keys) : ~(keys[p] < key)
    THEN (CHOOSE p \in 1..Len(keys) :
            /\ ~(keys[p] < key)
            /\ \A q \in 1..(p - 1) : keys[q] < key) - 1
    ELSE Len(keys)

\* mutant: the loop compares with < instead of <=
find_child_index_strict(keys, key) == LeafPos(keys, key)

\* InternalNode.find_child_index: first 0-based idx with keys[idx] > key
find_child_index(keys, key) ==
    IF \E p \in 1..Len(keys) : ~(keys[p] <= key)
    THEN (CHOOSE p \in 1..Len(keys) :
            /\ ~(keys[p] <= key)
            /\ \A q \in 1..(p - 1) : keys[q] <= key) - 1
    ELSE Len(keys)

\* The result of a node's insert: the heap afterwards, whether the node was
\* split, the promoted key and the new right sibling, and (history) the key
\* count each split node had when it was split.
NoSplit(h) == [h |-> h, split |-> FALSE, key |-> None, node |-> None,
               counts |-> {}]

\* variant: the key promoted to the parent is the last key that stays in the
\* old leaf
LeafSplit_promoteLeftLast(h, n) ==
    LET self == h[n]
        mid == Len(self.keys) \div 2
        newId == Len(h) + 1
        new_node == [LeafNode EXCEPT !.keys = SliceFrom(self.keys, mid),
                                     !.values = SliceFrom(self.values, mid),
                                     !.next_leaf = self.next_leaf]
        left == [self EXCEPT !.keys = SliceTo(self.keys, mid),
                             !.values = SliceTo(self.values, mid),
                             !.next_leaf = newId]
    IN [h |-> Append([h EXCEPT ![n] = left], new_node),
        split |-> TRUE, key |-> left.keys[Len(left.keys)], node |-> newId,
        counts |-> {<<"leaf", Len(self.keys)>>}]

\* mutant: the new leaf is not linked to the old leaf's successor
LeafSplit_unlinked(h, n) ==
    LET self == h[n]
        mid == Len(self.keys) \div 2
        newId == Len(h) + 1
        new_node == [LeafNode EXCEPT !.keys = SliceFrom(self.keys, mid),
                                     !.values = SliceFrom(self.values, mid)]
        left == [self EXCEPT !.keys = SliceTo(self.keys, mid),
                             !.values = SliceTo(self.values, mid),
                             !.next_leaf = newId]
    IN [h |-> Append([h EXCEPT ![n] = left], new_node),
        split |-> TRUE, key |-> new_node.keys[1], node |-> newId,
        counts |-> {<<"leaf", Len(self.keys)>>}]

\* LeafNode._split
LeafSplit(h, n) ==
    LET self == h[n]
        mid == Len(self.keys) \div 2
        newId == Len(h) + 1
        new_node == [LeafNode EXCEPT !.keys = SliceFrom(self.keys, mid),
                                     !.values = SliceFrom(self.values, mid),
                                     !.next_leaf = self.next_leaf]
        left == [self EXCEPT !.keys = SliceTo(self.keys, mid),
                             !.values = SliceTo(self.values, mid),
                             !.next_leaf = newId]
    IN [h |-> Append([h EXCEPT ![n] = left], new_node),
        split |-> TRUE, key |-> new_node.keys[1], node |-> newId,
        counts |-> {<<"leaf", Len(self.keys)>>}]

\* LeafNode.insert
LeafNode_insert(h, n, key, value) ==
    LET self == h[n]
        pos == LeafPos(self.keys, key)
    IN IF pos < Len(self.keys) /\ self.keys[pos + 1] = key
       THEN NoSplit([h EXCEPT ![n].values[pos + 1] = value])
       ELSE LET ins == [self EXCEPT !.keys = ListInsert(self.keys, pos, key),
                                    !.values = ListInsert(self.values, pos, value)]
                h1 == [h EXCEPT ![n] = ins]
            IN IF is_full(ins) THEN LeafSplit(h1, n) ELSE NoSplit(h1)

\* variant: the new right node also takes the child left of the middle key
InternalSplit_extraChild(h, n) ==
    LET self == h[n]
        mid == Len(self.keys) \div 2
        newId == Len(h) + 1
        new_node == [InternalNode EXCEPT !.keys = SliceFrom(self.keys, mid + 1),
                                         !.children = SliceFrom(self.children, mid)]
        middle_key == self.keys[mid + 1]
        left == [self EXCEPT !.keys = SliceTo(self.keys, mid),
                             !.children = SliceTo(self.children, mid + 1)]
    IN [h |-> Append([h EXCEPT ![n] = left], new_node),
        split |-> TRUE, key |-> middle_key, node |-> newId,
        counts |-> {<<"internal", Len(self.keys)>>}]

\* InternalNode._split
InternalSplit(h, n) ==
    LET self == h[n]
        mid == Len(self.keys) \div 2
        newId == Len(h) + 1
        new_node == [InternalNode EXCEPT !.keys = SliceFrom(self.keys, mid + 1),
                                         !.children = SliceFrom(self.children, mid + 1)]
        middle_key == self.keys[mid + 1]
        left == [self EXCEPT !.keys = SliceTo(self.keys, mid),
                             !.children = SliceTo(self.children, mid + 1)]
    IN [h |-> Append([h EXCEPT ![n] = left], new_node),
        split |-> TRUE, key |-> middle_key, node |-> newId,
        counts |-> {<<"internal", Len(self.keys)>>}]

RECURSIVE Node_insert(_, _, _, _)

\* InternalNode.insert (child_node is None: the only way it is called)
InternalNode_insert(h, n, key, value) ==
    LET idx == find_child_index(h[n].keys, key)
        result == Node_insert(h, h[n].children[idx + 1], key, value)
    IN IF result.split
       THEN LET self == result.h[n]
                ins == [self EXCEPT
                          !.keys = ListInsert(self.keys, idx, result.key),
                          !.children = ListInsert(self.children, idx + 1, result.node)]
                h1 == [result.h EXCEPT ![n] = ins]
            IN IF is_full(ins)
               THEN LET s == InternalSplit(h1, n)
                    IN [s EXCEPT !.counts = s.counts \cup result.counts]
               ELSE [NoSplit(h1) EXCEPT !.counts = result.counts]
       ELSE NoSplit(result.h)

\* dynamic dispatch of node.insert(key, value)
Node_insert(h, n, key, value) ==
    IF h[n].kind = "leaf" THEN LeafNode_insert(h, n, key, value)
    ELSE InternalNode_insert(h, n, key, value)

RECURSIVE Node_search(_, _, _)
\* LeafNode.search / InternalNode.search
Node_search(h, n, key) ==
    IF h[n].kind = "leaf"
    THEN IF \E i \in 1..Len(h[n].keys) : h[n].keys[i] = key
         THEN LET idx == CHOOSE i \in 1..Len(h[n].keys) :
                            /\ h[n].keys[i] = key
                            /\ \A j \in 1..(i - 1) : h[n].keys[j] # key
              IN h[n].values[idx]
         ELSE NoValue
    ELSE Node_search(h, h[n].children[find_child_index(h[n].keys, key) + 1], key)

\* BPlusTree.search
BPlusTree_search(h, r, key) == Node_search(h, r, key)

\* mutant: the new root is built but self.root is not replaced
BPlusTree_insert_keepRoot(h, r, key, value) ==
    LET result == Node_insert(h, r, key, value)
    IN IF result.split
       THEN LET new_root == [InternalNode EXCEPT !.keys = <<result.key>>,
                                                 !.children = <<r, result.node>>]
            IN [h |-> Append(result.h, new_root), root |-> r,
                split |-> TRUE, counts |-> result.counts]
       ELSE [h |-> result.h, root |-> r, split |-> FALSE, counts |-> result.counts]

\* BPlusTree.insert: the heap and root after insert(key, value)
BPlusTree_insert(h, r, key, value) ==
    LET result == Node_insert(h, r, key, value)
    IN IF result.split
       THEN LET new_root == [InternalNode EXCEPT !.keys = <<result.key>>,
                                                 !.children = <<r, result.node>>]
            IN [h |-> Append(result.h, new_root), root |-> Len(result.h) + 1,
                split |-> TRUE, counts |-> result.counts]
       ELSE [h |-> result.h, root |-> r, split |-> FALSE, counts |-> result.counts]

\* =====================================================================
\* Citation graph (structures/graph.py), as far as the engine uses it
\* =====================================================================
DampingFactor == FDivInt(FromInt(85), 100)     \* damping_factor=0.85
MaxIterations == 100                           \* max_iterations=100
Tolerance == FDivInt(FromInt(1), 1000000)      \* tolerance=1e-6
One == FromInt(1)

\* the default arguments of calculate_pagerank
DefaultParams == [damping_factor |-> DampingFactor,
                  max_iterations |-> MaxIterations,
                  tolerance |-> Tolerance]

VARIABLES
    adjacency_list,   \* DocumentGraph.adjacency_list: doc_id -> list of doc_ids
    incoming_links,   \* DocumentGraph.incoming_links: doc_id -> list of doc_ids
    node_order,       \* the keys of adjacency_list in the order a loop over the
                      \* dict visits them (the order they were inserted in)
    pagerank_scores,  \* DocumentGraph.pagerank_scores: doc_id -> score
    frame,            \* the call of calculate_pagerank: its position, its
                      \* arguments and its local variables
    linked,           \* history: the pairs <<from, to>> add_link was called with
    glast             \* history: the last add_node / add_link call

GraphDocs == 1..3    \* the document ids the graph is called with
MaxLinks == 4        \* at most this many distinct add_link calls are made

\* a dict with one more key (or one key rebound)
DictSet(d, k, v) == [x \in DOMAIN d \cup {k} |-> IF x = k THEN v ELSE d[x]]
EmptyDict == <<>>

\* the graph object: its two link maps and the order of their keys
Graph == [adjacency_list |-> adjacency_list, incoming_links |-> incoming_links,
          node_order |-> node_order]
EmptyGraph == [adjacency_list |-> EmptyDict, incoming_links |-> EmptyDict,
               node_order |-> <<>>]

\* DocumentGraph.add_node
add_node(g, doc_id) ==
    IF doc_id \notin DOMAIN g.adjacency_list
    THEN [adjacency_list |-> DictSet(g.adjacency_list, doc_id, <<>>),
          incoming_links |-> DictSet(g.incoming_links, doc_id, <<>>),
          node_order |-> Append(g.node_order, doc_id)]
    ELSE g

\* variant: the edge is appended without the duplicate test
add_link_noTest(g, from_doc, to_doc) ==
    LET g2 == add_node(add_node(g, from_doc), to_doc)
        g3 == [g2 EXCEPT !.adjacency_list[from_doc] = Append(@, to_doc)]
    IN [g3 EXCEPT !.incoming_links[to_doc] = Append(@, from_doc)]

\* variant: the edge is recorded in adjacency_list only
add_link_oneWay(g, from_doc, to_doc) ==
    LET g2 == add_node(add_node(g, from_doc), to_doc)
    IN IF to_doc \notin Range(g2.adjacency_list[from_doc])
       THEN [g2 EXCEPT !.adjacency_list[from_doc] = Append(@, to_doc)]
       ELSE g2

\* DocumentGraph.add_link
add_link(g, from_doc, to_doc) ==
    LET g2 == add_node(add_node(g, from_doc), to_doc)
    IN IF to_doc \notin Range(g2.adjacency_list[from_doc])
       THEN LET g3 == [g2 EXCEPT !.adjacency_list[from_doc] = Append(@, to_doc)]
            IN [g3 EXCEPT !.incoming_links[to_doc] = Append(@, from_doc)]
       ELSE g2

RECURSIVE SumSeq(_)
SumSeq(s) == IF s = <<>> THEN 0 ELSE s[1] + SumSeq(Tail(s))

RECURSIVE SumValues(_, _)
\* sum(d.values()) over the keys S of d
SumValues(d, S) ==
    IF S = {} THEN 0
    ELSE LET k == CHOOSE x \in S : TRUE IN d[k] + SumValues(d, S \ {k})

MaxOf(S) == CHOOSE x \in S : \A y \in S : y <= x

RECURSIVE AddIncoming(_, _, _, _, _)
\* the loop over incoming_links[doc_id]: each incoming document adds
\* damping_factor * current_scores[incoming_doc] / out_degree to score
\* (/ num_nodes when the incoming document has no outgoing link)
AddIncoming(score, incoming, g, current_scores, damping_factor) ==
    IF incoming = <<>> THEN score
    ELSE LET incoming_doc == incoming[1]
             out_degree == Len(g.adjacency_list[incoming_doc])
             num_nodes == Len(g.node_order)
             share == FMul(damping_factor, current_scores[incoming_doc])
         IN AddIncoming(FAdd(score, IF out_degree > 0
                                    THEN FDivInt(share, out_degree)
                                    ELSE FDivInt(share, num_nodes)),
                        Tail(incoming), g, current_scores, damping_factor)

\* variant: the incoming links add nothing to the base term
NodeScore_baseOnly(g, current_scores, doc_id, damping_factor) ==
    FDivInt(FAbsDiff(One, damping_factor), Len(g.node_order))

\* the body of the loop over doc_id in one iteration of calculate_pagerank:
\* the new score of one node
NodeScore(g, current_scores, doc_id, damping_factor) ==
    AddIncoming(FDivInt(FAbsDiff(One, damping_factor), Len(g.node_order)),
                g.incoming_links[doc_id], g, current_scores, damping_factor)

RECURSIVE ScoresOver_inPlace(_, _, _, _)
\* variant: each new score is written into current_scores at once, so the
\* nodes visited later read it
ScoresOver_inPlace(visit, g, current_scores, damping_factor) ==
    IF visit = <<>> THEN EmptyDict
    ELSE LET score == NodeScore(g, current_scores, visit[1], damping_factor)
         IN (visit[1] :> score)
              @@ ScoresOver_inPlace(Tail(visit), g,
                     [current_scores EXCEPT ![visit[1]] = score], damping_factor)

RECURSIVE ScoresOver(_, _, _, _)
\* new_scores, filled for the nodes of visit in that order
ScoresOver(visit, g, current_scores, damping_factor) ==
    IF visit = <<>> THEN EmptyDict
    ELSE (visit[1] :> NodeScore(g, current_scores, visit[1], damping_factor))
           @@ ScoresOver(Tail(visit), g, current_scores, damping_factor)

\* one iteration of calculate_pagerank: new_scores
NewScores(g, current_scores, damping_factor) ==
    ScoresOver(g.node_order, g, current_scores, damping_factor)

\* max(abs(new_scores[doc_id] - current_scores[doc_id]) for doc_id in ...)
MaxDiff(new_scores, current_scores) ==
    MaxOf({FAbsDiff(new_scores[d], current_scores[d]) : d \in DOMAIN new_scores})

RECURSIVE PagerankLoop(_, _, _, _)
\* the for loop of calculate_pagerank from the given iteration on: the
\* value of current_scores when it is left
PagerankLoop(g, current_scores, iteration, p) ==
    IF iteration >= p.max_iterations THEN current_scores
    ELSE LET new_scores == NewScores(g, current_scores, p.damping_factor)
         IN IF MaxDiff(new_scores, current_scores) < p.tolerance
            THEN current_scores
            ELSE PagerankLoop(g, new_scores, iteration + 1, p)

RECURSIVE InitialScores(_, _)
\* current_scores = {doc_id: 1.0 / num_nodes for doc_id in adjacency_list}
InitialScores(S, num_nodes) ==
    IF S = {} THEN EmptyDict
    ELSE LET d == CHOOSE x \in S : TRUE
         IN (d :> FDivInt(One, num_nodes)) @@ InitialScores(S \ {d}, num_nodes)

\* DocumentGraph.calculate_pagerank: the value of pagerank_scores afterwards
calculate_pagerank(g, scores, p) ==
    IF g.node_order = <<>> THEN scores
    ELSE PagerankLoop(g, InitialScores(Range(g.node_order), Len(g.node_order)),
                      0, p)

\* DocumentGraph.get_authority_score
get_authority_score(scores, doc_id) ==
    IF doc_id \in DOMAIN scores THEN scores[doc_id] ELSE 0

\* =====================================================================
\* Search engine (engine.py)
\* =====================================================================
MaxFiles == 3            \* the data directory holds at most this many files
AutocompleteLimit == 5   \* SearchEngine.autocomplete passes limit=5

\* "A b_ b" and "a ab a"
FileTexts == {<<65, 32, 98, 95, 32, 98>>, <<97, 32, 97, 98, 32, 97>>}

\* the queries tried: "", " ", "b_", "B a", "a", "c"
Queries == {<<>>, <<32>>, <<98, 95>>, <<66, 32, 97>>, <<97>>, <<99>>}

\* the prefixes tried: "", " ", " A", "a", "c"
Prefixes == {<<>>, <<32>>, <<32, 65>>, <<97>>, <<99>>}

VARIABLES
    files,                \* the files of data_dir still to be loaded, in sorted order
    inverted_index,       \* SearchEngine.inverted_index: word -> set of doc_ids
    doc_term_frequency,   \* SearchEngine.doc_term_frequency: doc_id -> {word: count}
    doc_ids,              \* SearchEngine.doc_ids
    pc,                   \* where SearchEngine.__init__ is: "load", "rank", "ready",
                          \* or "crashed" when it raised
    call,                 \* the last query served: [op, arg]
    results               \* what it returned

\* \w of the regular expression and the class [a-z0-9]
IsWordChar(c) == c \in (48..57) \cup (65..90) \cup (97..122) \cup {95}
IsTokenChar(c) == c \in (48..57) \cup (97..122)
IsSpace(c) == c \in {9, 10, 11, 12, 13, 32}

RECURSIVE WordRuns(_, _, _)
\* the maximal runs of \w characters of text; cur is the run being read
WordRuns(text, cur, runs) ==
    IF text = <<>> THEN (IF cur = <<>> THEN runs ELSE Append(runs, cur))
    ELSE IF IsWordChar(text[1]) THEN WordRuns(Tail(text), Append(cur, text[1]), runs)
    ELSE WordRuns(Tail(text), <<>>, IF cur = <<>> THEN runs ELSE Append(runs, cur))

\* SearchEngine._tokenize: re.findall(r'\b[a-z0-9]+\b', text.lower()). A match
\* starts and ends at a word boundary, so it is a whole run of \w characters
\* made of [a-z0-9] only; a run holding "_" yields no token.
tokenize(text) ==
    SelectSeq(WordRuns(lower(text), <<>>, <<>>),
              LAMBDA run : \A i \in 1..Len(run) : IsTokenChar(run[i]))

RECURSIVE LStrip(_)
LStrip(s) == IF s # <<>> /\ IsSpace(s[1]) THEN LStrip(Tail(s)) ELSE s
RECURSIVE RStrip(_)
RStrip(s) == IF s # <<>> /\ IsSpace(s[Len(s)]) THEN RStrip(SubSeq(s, 1, Len(s) - 1))
             ELSE s
\* str.strip()
strip(s) == RStrip(LStrip(s))

Count(seq, x) == Cardinality({i \in 1..Len(seq) : seq[i] = x})

\* dict.get(key, default) on a defaultdict: the value, and the dict afterwards
dict_get(d, key, default) ==
    [value |-> IF key \in DOMAIN d THEN d[key] ELSE default, dict |-> d]

\* mutant: defaultdict[key], which stores default_factory() under a missing key
dict_getitem(d, key, default) ==
    [value |-> IF key \in DOMAIN d THEN d[key] ELSE default,
     dict |-> IF key \in DOMAIN d THEN d ELSE DictSet(d, key, default)]

\* mutant: self.inverted_index[search_term]
index_lookup_getitem(d, key) == dict_getitem(d, key, {})

\* the access self.inverted_index.get(search_term, set()) of search
index_lookup(d, key) == dict_get(d, key, {})

\* mutant: the raw count, not divided by the document length
calculate_term_frequency_raw(dtf, doc_id, term) ==
    IF doc_id \notin DOMAIN dtf THEN 0
    ELSE LET term_freq_dict == dtf[doc_id]
             t == lower(term)
         IN FromInt(IF t \in DOMAIN term_freq_dict THEN term_freq_dict[t] ELSE 0)

\* SearchEngine._calculate_term_frequency
calculate_term_frequency(dtf, doc_id, term) ==
    IF doc_id \notin DOMAIN dtf THEN 0
    ELSE LET term_freq_dict == dtf[doc_id]
             t == lower(term)
             term_count == IF t \in DOMAIN term_freq_dict THEN term_freq_dict[t] ELSE 0
             doc_length == SumValues(term_freq_dict, DOMAIN term_freq_dict)
         IN IF doc_length > 0 THEN FDivInt(FromInt(term_count), doc_length) ELSE 0

\* variant: the last term of the query is used
search_term_last(query_terms) == lower(query_terms[Len(query_terms)])

\* the term search uses: query_terms[0].lower()
search_term_of(query_terms) == lower(query_terms[1])

Contains(text, term) ==
    \E i \in 1..(Len(text) - Len(term) + 1) :
        SubSeq(text, i, i + Len(term) - 1) = term

\* SearchEngine._extract_snippet for a content shorter than 50 characters,
\* as every file of the model is: the window [max(0, idx - 50),
\* min(len, idx + 100)) is the whole content and no "..." is added
extract_snippet(content, query_term) ==
    IF ~Contains(lower(content), lower(query_term)) THEN content
    ELSE strip(content)

RECURSIVE ScoreDocs(_, _, _)
\* the for loop of search over matching_docs (docs lists the set in the
\* order it is iterated; for small integers that is ascending order)
ScoreDocs(docs, term, acc) ==
    IF docs = <<>> THEN acc
    ELSE LET doc_id == docs[1]
             metadata == BPlusTree_search(nodes, root, doc_id)
         IN IF metadata = NoValue THEN ScoreDocs(Tail(docs), term, acc)
            ELSE LET tf == calculate_term_frequency(doc_term_frequency, doc_id, term)
                     authority == get_authority_score(pagerank_scores, doc_id)
                 IN ScoreDocs(Tail(docs), term, Append(acc,
                        [doc_id |-> doc_id,
                         title |-> metadata.title,
                         url |-> metadata.url,
                         snippet |-> extract_snippet(metadata.content, term),
                         score |-> FAdd(tf, authority),
                         term_frequency |-> tf,
                         authority_score |-> authority]))

\* SearchEngine.search: the list returned, and inverted_index afterwards
SearchEngine_search(query) ==
    IF query = <<>> \/ strip(query) = <<>>
    THEN [results |-> <<>>, inverted_index |-> inverted_index]
    ELSE LET query_terms == tokenize(query)
         IN IF query_terms = <<>>
            THEN [results |-> <<>>, inverted_index |-> inverted_index]
            ELSE LET search_term == search_term_of(query_terms)
                     got == index_lookup(inverted_index, search_term)
                     matching_docs == got.value
                 IN IF matching_docs = {}
                    THEN [results |-> <<>>, inverted_index |-> got.dict]
                    ELSE [results |-> sort_results(
                              ScoreDocs(SetToSeq(matching_docs), search_term, <<>>)),
                          inverted_index |-> got.dict]

\* mutant: the blank-prefix guard is missing
SearchEngine_autocomplete_unguarded(prefix) ==
    Trie_autocomplete(trie, strip(prefix), AutocompleteLimit)

\* SearchEngine.autocomplete
SearchEngine_autocomplete(prefix) ==
    IF prefix = <<>> \/ strip(prefix) = <<>> THEN <<>>
    ELSE Trie_autocomplete(trie, strip(prefix), AutocompleteLimit)

RECURSIVE InsertAll(_, _)
\* the loop "for word in set(words): self.trie.insert(word)"
InsertAll(t, words) ==
    IF words = {} THEN t
    ELSE LET w == CHOOSE x \in words : TRUE
         IN InsertAll(Trie_insert(t, w), words \ {w})

RECURSIVE AddLinks(_, _, _)
\* the loop "for to_doc in cited_docs: self.graph.add_link(from_doc, to_doc)"
AddLinks(g, from_doc, cited_docs) ==
    IF cited_docs = <<>> THEN g
    ELSE AddLinks(add_link(g, from_doc, cited_docs[1]), from_doc, Tail(cited_docs))

RECURSIVE CiteAll(_, _, _)
\* the loop of _generate_citations over doc_ids; cited[d] is the sample
\* drawn for d (taken in ascending order)
CiteAll(g, docs, cited) ==
    IF docs = <<>> THEN g
    ELSE CiteAll(AddLinks(g, docs[1], SetToSeq(cited[docs[1]])), Tail(docs), cited)

Min(a, b) == IF a < b THEN a ELSE b

treeVars == <<order, nodes, root, written, last>>
trieVars == <<trie, inserted, tlast>>
sortVars == <<sort_in, sort_out, sort_pc>>
graphVars == <<adjacency_list, incoming_links, node_order, pagerank_scores, frame,
               linked, glast>>
engineVars == <<files, inverted_index, doc_term_frequency, doc_ids, pc, call,
                results>>
vars == <<order, nodes, root, written, last, trie, inserted, tlast,
          sort_in, sort_out, sort_pc,
          adjacency_list, incoming_links, node_order, pagerank_scores, frame,
          linked, glast,
          files, inverted_index, doc_term_frequency, doc_ids, pc, call, results>>

\* the variables of the other components, at rest
TreeIdle == order = DefaultOrder /\ nodes = <<LeafNode>> /\ root = 1
            /\ written = [k \in 1..MaxKey |-> NoValue]
            /\ last = [key |-> None, old |-> NoValue, split |-> FALSE, counts |-> {}]
NoInsert == [word |-> <<>>, repeated |-> FALSE, called |-> FALSE]
TrieIdle == trie = EmptyTrie /\ inserted = {} /\ tlast = NoInsert
SortIdle == sort_in = <<>> /\ sort_out = <<>> /\ sort_pc = "idle"
NoGraphCall == [op |-> "none", from |-> None, to |-> None, repeated |-> FALSE]
NoFrame == [pc |-> "idle"]
GraphIdle == /\ adjacency_list = EmptyDict /\ incoming_links = EmptyDict
             /\ node_order = <<>>
             /\ pagerank_scores = EmptyDict /\ frame = NoFrame
             /\ linked = {} /\ glast = NoGraphCall
EngineOff == /\ files = <<>> /\ inverted_index = EmptyDict
             /\ doc_term_frequency = EmptyDict /\ doc_ids = <<>>
             /\ pc = "idle" /\ call = [op |-> "none", arg |-> <<>>]
             /\ results = <<>>
EngineIdle == GraphIdle /\ EngineOff

\* --------------------------------------------------------------- SpecTrie
TrieInit == TrieIdle /\ TreeIdle /\ SortIdle /\ EngineIdle

\* one call of Trie.insert(word)
TrieInsert ==
    \E word \in Strings(Chars, WordLens) :
        /\ Cardinality(inserted \cup {word}) <= MaxWords
        /\ trie' = Trie_insert(trie, word)
        /\ inserted' = inserted \cup {word}
        /\ tlast' = [word |-> word, called |-> TRUE,
                     repeated |-> \E w \in inserted : lower(w) = lower(word)]
        /\ UNCHANGED <<treeVars, sortVars, graphVars, engineVars>>

TrieNext == TrieInsert
SpecTrie == TrieInit /\ [][TrieNext]_vars

NoCall == [key |-> None, old |-> NoValue, split |-> FALSE, counts |-> {}]

\* BPlusTree.__init__
TreeInit ==
    /\ order \in Orders
    /\ nodes = <<LeafNode>>
    /\ root = 1
    /\ written = [k \in 1..MaxKey |-> NoValue]
    /\ last = NoCall
    /\ TrieIdle /\ SortIdle /\ EngineIdle

\* one call of BPlusTree.insert(key, value)
TreeInsert ==
    \E key \in 1..MaxKey, value \in Vals :
        LET r == BPlusTree_insert(nodes, root, key, value)
        IN /\ nodes' = r.h
           /\ root' = r.root
           /\ written' = [written EXCEPT ![key] = value]
           /\ last' = [key |-> key, old |-> written[key],
                       split |-> r.split, counts |-> r.counts]
           /\ UNCHANGED <<order, trieVars, sortVars, graphVars, engineVars>>

TreeNext == TreeInsert
SpecTree == TreeInit /\ [][TreeNext]_vars

\* --------------------------------------------------------------- SpecSort
\* the lists of scored records: record i of the input carries pos = i
SortInputs ==
    UNION {{[i \in 1..n |-> [pos |-> i, score |-> f[i]]] :
               f \in [1..n -> 1..MaxScore]} : n \in 0..MaxSortLen}

SortInit ==
    /\ sort_in \in SortInputs
    /\ sort_out = <<>>
    /\ sort_pc = "call"
    /\ TreeIdle /\ TrieIdle /\ EngineIdle

\* one call of sort_results(sort_in)
SortResults ==
    /\ sort_pc = "call"
    /\ sort_out' = sort_results(sort_in)
    /\ sort_pc' = "done"
    /\ UNCHANGED <<sort_in, treeVars, trieVars, graphVars, engineVars>>

SortNext == SortResults
SpecSort == SortInit /\ [][SortNext]_vars


\* ------------------------------------------------------------- SpecEngine
\* the listings of data_dir: each file is readable with one of the texts, or
\* cannot be read (open/read raises, which _load_documents catches)
FileKinds == {[readable |-> TRUE, text |-> t] : t \in FileTexts}
                 \cup {[readable |-> FALSE, text |-> <<>>]}
FileLists ==
    UNION {{[i \in 1..n |-> [name |-> i, readable |-> k[i].readable,
                              text |-> k[i].text]] : k \in [1..n -> FileKinds]} :
              n \in 0..MaxFiles}

\* SearchEngine.__init__, up to the call of _load_documents
EngineInit ==
    /\ files \in FileLists
    /\ inverted_index = EmptyDict
    /\ doc_term_frequency = EmptyDict
    /\ doc_ids = <<>>
    /\ GraphIdle
    /\ pc = "load"
    /\ call = [op |-> "none", arg |-> <<>>]
    /\ results = <<>>
    /\ TreeIdle /\ TrieIdle /\ SortIdle

\* variant: only the first occurrence of the first word is indexed
IndexWords_firstOnly(index, words, doc_id) ==
    IF words = <<>> THEN index
    ELSE DictSet(index, words[1],
                 (IF words[1] \in DOMAIN index THEN index[words[1]] ELSE {})
                    \cup {doc_id})

\* the loop "for word in words: self.inverted_index[word].add(doc_id)" on
\* the defaultdict(set)
IndexWords(index, words, doc_id) ==
    [w \in DOMAIN index \cup Range(words) |->
        (IF w \in DOMAIN index THEN index[w] ELSE {})
        \cup (IF w \in Range(words) THEN {doc_id} ELSE {})]

\* one iteration of the loop of _load_documents whose file is read
\* variant: the id is the position of the file in the listing
NextDocId_byPosition(ids, f) == f.name

\* "doc_id = len(self.doc_ids) + 1" in the loop over the file names
NextDocId(ids, f) == Len(ids) + 1

LoadDocument ==
    /\ pc = "load" /\ files # <<>> /\ Head(files).readable
    /\ LET f == Head(files)
           doc_id == NextDocId(doc_ids, f)
           words == tokenize(f.text)
           term_freq == [w \in Range(words) |-> Count(words, w)]
           metadata == [title |-> f.name, file_path |-> f.name, url |-> f.name,
                        word_count |-> Len(words), content |-> f.text]
           t == BPlusTree_insert(nodes, root, doc_id, metadata)
       IN /\ inverted_index' = IndexWords(inverted_index, words, doc_id)
          /\ doc_term_frequency' = DictSet(doc_term_frequency, doc_id, term_freq)
          /\ trie' = InsertAll(trie, Range(words))
          /\ nodes' = t.h /\ root' = t.root
          /\ doc_ids' = Append(doc_ids, doc_id)
          /\ files' = Tail(files)
    /\ UNCHANGED <<order, written, last, inserted, tlast, sortVars, graphVars,
                   pc, call, results>>

\* one iteration whose open/read raises: the except clause prints and the
\* loop goes on
LoadFails ==
    /\ pc = "load" /\ files # <<>> /\ ~Head(files).readable
    /\ files' = Tail(files)
    /\ UNCHANGED <<treeVars, trieVars, sortVars, graphVars, inverted_index,
                   doc_term_frequency, doc_ids, pc, call, results>>

\* _generate_citations with fewer than two documents: it returns at once
NoCitations ==
    /\ pc = "load" /\ files = <<>> /\ Len(doc_ids) < 2
    /\ pc' = "rank"
    /\ UNCHANGED <<treeVars, trieVars, sortVars, graphVars, files, inverted_index,
                   doc_term_frequency, doc_ids, call, results>>

\* _generate_citations when random.randint(2, min(4, n - 1)) has an empty
\* range: it raises ValueError out of __init__
CitationsRaise ==
    /\ pc = "load" /\ files = <<>> /\ Len(doc_ids) >= 2
    /\ Min(4, Len(doc_ids) - 1) < 2
    /\ pc' = "crashed"
    /\ UNCHANGED <<treeVars, trieVars, sortVars, graphVars, files, inverted_index,
                   doc_term_frequency, doc_ids, call, results>>

\* _generate_citations: every document cites a random sample of 2..min(4, n-1)
\* other documents
GenerateCitations ==
    /\ pc = "load" /\ files = <<>> /\ Len(doc_ids) >= 2
    /\ Min(4, Len(doc_ids) - 1) >= 2
    /\ \E cited \in [Range(doc_ids) ->
                        {S \in SUBSET Range(doc_ids) :
                            Cardinality(S) \in 2..Min(4, Len(doc_ids) - 1)}] :
          /\ \A d \in Range(doc_ids) : d \notin cited[d]
          /\ LET g == CiteAll(Graph, doc_ids, cited)
             IN /\ adjacency_list' = g.adjacency_list
                /\ incoming_links' = g.incoming_links
                /\ node_order' = g.node_order
    /\ pc' = "rank"
    /\ UNCHANGED <<treeVars, trieVars, sortVars, pagerank_scores, frame, linked,
                   glast, files, inverted_index, doc_term_frequency, doc_ids, call,
                   results>>

\* _calculate_authority_scores
CalculateAuthorityScores ==
    /\ pc = "rank"
    /\ pagerank_scores' =
          calculate_pagerank(Graph, pagerank_scores, DefaultParams)
    /\ pc' = "ready"
    /\ UNCHANGED <<treeVars, trieVars, sortVars, adjacency_list, incoming_links,
                   node_order, frame, linked, glast, files, inverted_index, doc_term_frequency,
                   doc_ids, call, results>>

\* one call of SearchEngine.search(query) on the built engine
Search ==
    /\ pc = "ready"
    /\ \E query \in Queries :
          LET r == SearchEngine_search(query)
          IN /\ results' = r.results
             /\ inverted_index' = r.inverted_index
             /\ call' = [op |-> "search", arg |-> query]
    /\ UNCHANGED <<treeVars, trieVars, sortVars, graphVars, files,
                   doc_term_frequency, doc_ids, pc>>

\* one call of SearchEngine.autocomplete(prefix) on the built engine
Autocomplete ==
    /\ pc = "ready"
    /\ \E prefix \in Prefixes :
          /\ results' = SearchEngine_autocomplete(prefix)
          /\ call' = [op |-> "autocomplete", arg |-> prefix]
    /\ UNCHANGED <<treeVars, trieVars, sortVars, graphVars, files, inverted_index,
                   doc_term_frequency, doc_ids, pc>>

EngineNext ==
    \/ LoadDocument \/ LoadFails
    \/ NoCitations \/ CitationsRaise \/ GenerateCitations
    \/ CalculateAuthorityScores
    \/ Search \/ Autocomplete
SpecEngine == EngineInit /\ [][EngineNext]_vars

\* -------------------------------------------------------------- SpecGraph
\* DocumentGraph.__init__
GraphInit == GraphIdle /\ TreeIdle /\ TrieIdle /\ SortIdle /\ EngineOff

\* one call of DocumentGraph.add_node(doc_id)
AddNode ==
    \E doc_id \in GraphDocs :
        LET g == add_node(Graph, doc_id)
        IN /\ adjacency_list' = g.adjacency_list
           /\ incoming_links' = g.incoming_links
           /\ node_order' = g.node_order
           /\ glast' = [op |-> "add_node", from |-> doc_id, to |-> None,
                        repeated |-> doc_id \in DOMAIN adjacency_list]
           /\ UNCHANGED <<linked, pagerank_scores, frame, treeVars, trieVars, sortVars,
                          engineVars>>

\* one call of DocumentGraph.add_link(from_doc, to_doc)
AddLink ==
    \E from_doc \in GraphDocs, to_doc \in GraphDocs :
        LET g == add_link(Graph, from_doc, to_doc)
        IN /\ Cardinality(linked \cup {<<from_doc, to_doc>>}) <= MaxLinks
           /\ adjacency_list' = g.adjacency_list
           /\ incoming_links' = g.incoming_links
           /\ node_order' = g.node_order
           /\ linked' = linked \cup {<<from_doc, to_doc>>}
           /\ glast' = [op |-> "add_link", from |-> from_doc, to |-> to_doc,
                        repeated |-> <<from_doc, to_doc>> \in linked]
           /\ UNCHANGED <<pagerank_scores, frame, treeVars, trieVars, sortVars,
                          engineVars>>

GraphNext == AddNode \/ AddLink
SpecGraph == GraphInit /\ [][GraphNext]_vars

\* --------------------------------------------------------------- SpecRank
\* calculate_pagerank, one iteration of its loop at a time, on the graphs
\* that lists of add_link calls build
MaxEdges == 3        \* at most this many add_link calls build the graph

\* the values of max_iterations tried: none, a few, the default
IterationCaps == {0, 2, MaxIterations}
RankParams == {[DefaultParams EXCEPT !.max_iterations = m] : m \in IterationCaps}

RECURSIVE CallListsOf(_)
\* the lists of n different add_link calls
CallListsOf(n) ==
    IF n = 0 THEN {<<>>}
    ELSE {Append(c, e) : c \in CallListsOf(n - 1), e \in GraphDocs \X GraphDocs}

RECURSIVE AddCalls(_, _)
\* the loop "for from_doc, to_doc in calls: graph.add_link(from_doc, to_doc)"
AddCalls(g, calls) ==
    IF calls = <<>> THEN g
    ELSE AddCalls(add_link(g, calls[1][1], calls[1][2]), Tail(calls))

\* the documents are numbered in the order the calls name them first, and
\* no call is repeated
CallLists ==
    {c \in UNION {CallListsOf(n) : n \in 0..MaxEdges} :
        /\ \A i, j \in 1..Len(c) : i # j => c[i] # c[j]
        /\ LET visit == AddCalls(EmptyGraph, c).node_order
           IN \A i \in 1..Len(visit) : visit[i] = i}

\* the frame of calculate_pagerank before the call, for the graph built by
\* calls; before, before_incoming and before_order are history: the scores,
\* the incoming_links and the node order of the graph that the same calls
\* built in another order
NewFrame(calls, p, swapped, before, before_incoming, before_order) ==
    [pc |-> "idle", calls |-> calls, p |-> p,
     current_scores |-> EmptyDict, prev_scores |-> EmptyDict,
     new_scores |-> EmptyDict, executed |-> 0, diffs |-> <<>>,
     broke |-> FALSE, returned |-> EmptyDict,
     swapped |-> swapped, before |-> before, before_incoming |-> before_incoming,
     before_order |-> before_order]

\* the call lists are applied to a new DocumentGraph
Built(calls, f) ==
    LET g == AddCalls(EmptyGraph, calls)
    IN /\ adjacency_list = g.adjacency_list
       /\ incoming_links = g.incoming_links
       /\ node_order = g.node_order
       /\ pagerank_scores = EmptyDict
       /\ linked = Range(calls)
       /\ glast = IF calls = <<>> THEN NoGraphCall
                  ELSE [op |-> "add_link", from |-> calls[Len(calls)][1],
                        to |-> calls[Len(calls)][2], repeated |-> FALSE]
       /\ frame = f

RankInit ==
    /\ \E calls \in CallLists, p \in RankParams :
          Built(calls, NewFrame(calls, p, FALSE, EmptyDict, EmptyDict, <<>>))
    /\ TreeIdle /\ TrieIdle /\ SortIdle /\ EngineOff

\* calculate_pagerank up to the loop: the early return on an empty graph,
\* the initial scores
EnterPagerank(g, f) ==
    IF g.node_order = <<>> THEN [f EXCEPT !.pc = "done"]
    ELSE [f EXCEPT !.pc = IF f.p.max_iterations > 0 THEN "loop" ELSE "exit",
                   !.current_scores =
                       InitialScores(Range(g.node_order), Len(g.node_order))]

\* variant: the loop never tests for convergence
LoopBody_noBreak(g, f) ==
    LET new_scores == NewScores(g, f.current_scores, f.p.damping_factor)
        max_diff == MaxDiff(new_scores, f.current_scores)
    IN [f EXCEPT !.pc = IF f.executed + 1 < f.p.max_iterations
                          THEN "loop" ELSE "exit",
                 !.prev_scores = f.current_scores,
                 !.current_scores = new_scores,
                 !.new_scores = new_scores,
                 !.executed = @ + 1,
                 !.diffs = Append(@, max_diff)]

\* one pass through the body of the loop of calculate_pagerank
LoopBody(g, f) ==
    LET new_scores == NewScores(g, f.current_scores, f.p.damping_factor)
        max_diff == MaxDiff(new_scores, f.current_scores)
    IN IF max_diff < f.p.tolerance
       THEN [f EXCEPT !.pc = "exit",
                      !.prev_scores = f.current_scores,
                      !.new_scores = new_scores,
                      !.executed = @ + 1,
                      !.diffs = Append(@, max_diff),
                      !.broke = TRUE]
       ELSE [f EXCEPT !.pc = IF f.executed + 1 < f.p.max_iterations
                               THEN "loop" ELSE "exit",
                      !.prev_scores = f.current_scores,
                      !.current_scores = new_scores,
                      !.new_scores = new_scores,
                      !.executed = @ + 1,
                      !.diffs = Append(@, max_diff)]

\* calculate_pagerank is called
PagerankCall ==
    /\ frame.pc = "idle"
    /\ frame' = EnterPagerank(Graph, frame)
    /\ UNCHANGED <<adjacency_list, incoming_links, node_order, pagerank_scores,
                   linked, glast, treeVars, trieVars, sortVars, engineVars>>

\* one iteration of the loop
PagerankIterate ==
    /\ frame.pc = "loop"
    /\ frame' = LoopBody(Graph, frame)
    /\ UNCHANGED <<adjacency_list, incoming_links, node_order, pagerank_scores,
                   linked, glast, treeVars, trieVars, sortVars, engineVars>>

\* self.pagerank_scores = current_scores; return self.pagerank_scores
PagerankReturn ==
    /\ frame.pc = "exit"
    /\ pagerank_scores' = frame.current_scores
    /\ frame' = [frame EXCEPT !.pc = "done", !.returned = frame.current_scores]
    /\ UNCHANGED <<adjacency_list, incoming_links, node_order,
                   linked, glast, treeVars, trieVars, sortVars, engineVars>>

\* s with its elements i and i + 1 exchanged
SwapAt(s, i) ==
    [k \in 1..Len(s) |-> IF k = i THEN s[i + 1] ELSE IF k = i + 1 THEN s[i] ELSE s[k]]

\* a second DocumentGraph is given the same add_link calls with two
\* neighbouring calls exchanged, to be ranked with the same arguments
Rebuild ==
    /\ frame.pc = "done"
    /\ ~frame.swapped
    /\ \E i \in 1..(Len(frame.calls) - 1) :
          LET calls == SwapAt(frame.calls, i)
              g == AddCalls(EmptyGraph, calls)
          IN /\ adjacency_list' = g.adjacency_list
             /\ incoming_links' = g.incoming_links
             /\ node_order' = g.node_order
             /\ pagerank_scores' = EmptyDict
             /\ glast' = [glast EXCEPT !.from = calls[Len(calls)][1],
                                       !.to = calls[Len(calls)][2]]
             /\ frame' = NewFrame(calls, frame.p, TRUE, pagerank_scores,
                                  incoming_links, node_order)
    /\ UNCHANGED <<linked, treeVars, trieVars, sortVars, engineVars>>

RankNext == PagerankCall \/ PagerankIterate \/ PagerankReturn \/ Rebuild
SpecRank == RankInit /\ [][RankNext]_vars

\* the interpreter runs a call that was started to its end
\* weak fairness of the loop body is written with its guard in the place
\* of ENABLED <<PagerankIterate>>_vars
SpecRankFair ==
    /\ SpecRank
    /\ []<>(frame.pc # "loop") \/ []<><<PagerankIterate>>_vars
    /\ WF_vars(PagerankReturn)

\* the stepwise call stores what calculate_pagerank computes as one function
RankAgrees ==
    frame.pc = "done" =>
        pagerank_scores = calculate_pagerank(Graph, EmptyDict, frame.p)

\* ---------------------------------------------------------- tree measures
RECURSIVE Height(_, _)
Height(h, n) ==
    IF h[n].kind = "leaf" THEN 1 ELSE 1 + Height(h, h[n].children[1])

RECURSIVE LeftmostLeaf(_, _)
LeftmostLeaf(h, n) ==
    IF h[n].kind = "leaf" THEN n ELSE LeftmostLeaf(h, h[n].children[1])

RECURSIVE ChainKeys(_, _)
\* the keys met following next_leaf from leaf n
ChainKeys(h, n) ==
    IF n = None THEN <<>> ELSE h[n].keys \o ChainKeys(h, h[n].next_leaf)

StoredKeys == {k \in 1..MaxKey : written[k] # NoValue}

Leaves == {n \in 1..Len(nodes) : nodes[n].kind = "leaf"}

\* the places (leaf, position) at which key k is stored
Places(k) == {<<n, i>> \in Leaves \X (1..(MaxKey + 1)) :
                 i <= Len(nodes[n].keys) /\ nodes[n].keys[i] = k}

StrictlyAscending(s) == \A i \in 1..(Len(s) - 1) : s[i] < s[i + 1]

\* ------------------------------------------------------------------ C2
\* C2: the B+Tree behaves as a map. After any sequence of inserts,
\* search(k) returns the value of the last insert of k, returns None for
\* every key never inserted, and every inserted key is stored exactly once.
C2_TreeIsMap ==
    \A k \in 1..MaxKey :
        /\ BPlusTree_search(nodes, root, k) = written[k]
        /\ Cardinality(Places(k)) = (IF written[k] = NoValue THEN 0 ELSE 1)

\* a key was overwritten with a new value in a tree that has split, while
\* some other key is still absent
C2_Witness ==
    /\ last.old # NoValue /\ last.old # written[last.key]
    /\ Height(nodes, root) >= 2
    /\ \E k \in 1..MaxKey : written[k] = NoValue

\* ------------------------------------------------------------------ C8
\* C8: following next_leaf from the leftmost leaf visits every stored key
\* exactly once in strictly ascending order; once more distinct keys than
\* the order have been inserted, the root is an internal node.
C8_LeafChainSorted ==
    LET chain == ChainKeys(nodes, LeftmostLeaf(nodes, root))
    IN /\ StrictlyAscending(chain)
       /\ Range(chain) = StoredKeys
       /\ Len(chain) = Cardinality(StoredKeys)
       /\ (Cardinality(StoredKeys) > order =>
              nodes[root].kind = "internal" /\ Height(nodes, root) > 1)

\* a tree of height 3 whose chain runs over at least four leaves
C8_Witness ==
    /\ Height(nodes, root) = 3
    /\ Cardinality(Leaves) >= 4
    /\ Cardinality(StoredKeys) > order

\* ------------------------------------------------------------------ C9
\* C9: a node is split exactly when its key count would exceed the order:
\* every split made by an insert acted on a node holding more than `order`
\* keys, a node that reaches `order` keys is not split, and after the insert
\* no node holds more than `order` keys.
C9_SplitOnlyOnOverflow ==
    /\ \A c \in last.counts : c[2] > order
    /\ \A n \in 1..Len(nodes) : Len(nodes[n].keys) <= order

\* ------------------------------------------------------------------ C10
\* C10: the height changes only when the root splits. An insert raises the
\* height by at most one and never lowers it; it raises it exactly when the
\* split propagates out of the root, and the new root is then an internal
\* node with one key and two children, the old root and its new sibling.
C10_HeightOnlyOnRootSplit ==
    [][LET H == Height(nodes, root)
           H2 == Height(nodes', root')
       IN /\ H2 >= H /\ H2 <= H + 1
          /\ (H2 = H + 1) <=> last'.split
          /\ (root' # root) <=> last'.split
          /\ last'.split =>
                /\ nodes'[root'].kind = "internal"
                /\ Len(nodes'[root'].keys) = 1
                /\ Len(nodes'[root'].children) = 2
                /\ nodes'[root'].children[1] = root
                /\ nodes'[root'].children[2] > Len(nodes)
                /\ nodes'[root'].children[2] # root'
                /\ nodes'[nodes'[root'].children[2]].kind = nodes[root].kind
      ]_vars

\* the last insert split an internal root: the tree grew to height 3
C10_Witness ==
    /\ last.split
    /\ Height(nodes, root) = 3
    /\ \E c \in last.counts : c[1] = "internal"

\* ------------------------------------------------------------------ C11
Internals == {n \in 1..Len(nodes) : nodes[n].kind = "internal"}

\* C11: after any sequence of inserts every internal node has exactly one
\* more child than it has keys (and at least one key), the two halves of a
\* split internal node included; a leaf has no children and one value per key.
C11_ChildrenOneMoreThanKeys ==
    \A n \in 1..Len(nodes) :
        IF nodes[n].kind = "internal"
        THEN /\ Len(nodes[n].children) = Len(nodes[n].keys) + 1
             /\ Len(nodes[n].keys) >= 1
        ELSE /\ nodes[n].children = <<>>
             /\ Len(nodes[n].values) = Len(nodes[n].keys)

\* the last insert split an internal node below a root that already was
\* internal: both halves and their parent are internal nodes of the tree
C11_Witness ==
    /\ \E c \in last.counts : c[1] = "internal"
    /\ Cardinality(Internals \ {root}) >= 2
    /\ \A n \in Internals \ {root} : Len(nodes[n].children) = 2

\* ------------------------------------------------------------------ C12
NoDuplicates(s) == \A i \in 1..Len(s), j \in 1..Len(s) : s[i] = s[j] => i = j

\* C12: add_link creates missing endpoints and is idempotent. After every
\* call both endpoints of every add_link call made so far are nodes of the
\* graph, no neighbour list holds the same document twice, every called
\* pair is an edge, and a call repeating an earlier add_link call leaves
\* adjacency_list and incoming_links as they were.
C12_AddLinkIdempotent ==
    [][/\ \A c \in linked' :
            /\ {c[1], c[2]} \subseteq DOMAIN adjacency_list'
            /\ {c[1], c[2]} \subseteq DOMAIN incoming_links'
            /\ c[2] \in Range(adjacency_list'[c[1]])
       /\ \A d \in DOMAIN adjacency_list' : NoDuplicates(adjacency_list'[d])
       /\ \A d \in DOMAIN incoming_links' : NoDuplicates(incoming_links'[d])
       /\ (glast'.op = "add_link" /\ <<glast'.from, glast'.to>> \in linked) =>
              /\ adjacency_list' = adjacency_list
              /\ incoming_links' = incoming_links
      ]_vars

\* an add_link call was repeated on a graph that holds a self-loop and an
\* edge whose target the call itself created
C12_Witness ==
    /\ glast.op = "add_link" /\ glast.repeated
    /\ \E c \in linked : c[1] = c[2]
    /\ \E c \in linked : c[1] # c[2] /\ adjacency_list[c[2]] = <<>>

\* ------------------------------------------------------------------ C13
\* C13: incoming_links is the transpose of adjacency_list. In every state
\* reached by add_node and add_link calls, self-loops included, the two maps
\* have the same keys, b is in adjacency_list[a] exactly when a is in
\* incoming_links[b], every listed document is a node, and the two maps hold
\* the same number of entries.
C13_IncomingIsTranspose ==
    /\ DOMAIN adjacency_list = DOMAIN incoming_links
    /\ \A a \in DOMAIN adjacency_list :
          /\ Range(adjacency_list[a]) \subseteq DOMAIN adjacency_list
          /\ Range(incoming_links[a]) \subseteq DOMAIN adjacency_list
    /\ \A a \in GraphDocs, b \in GraphDocs :
          (a \in DOMAIN adjacency_list /\ b \in Range(adjacency_list[a]))
             <=> (b \in DOMAIN incoming_links /\ a \in Range(incoming_links[b]))
    /\ SumSeq([i \in 1..Cardinality(DOMAIN adjacency_list) |->
                 Len(adjacency_list[SetToSeq(DOMAIN adjacency_list)[i]])])
         = SumSeq([i \in 1..Cardinality(DOMAIN incoming_links) |->
                 Len(incoming_links[SetToSeq(DOMAIN incoming_links)[i]])])

\* a graph with a self-loop, an edge between two documents in both
\* directions and a node that add_node created and no edge touches
C13_Witness ==
    /\ \E a \in DOMAIN adjacency_list : a \in Range(adjacency_list[a])
    /\ \E a \in DOMAIN adjacency_list, b \in DOMAIN adjacency_list :
          a # b /\ b \in Range(adjacency_list[a]) /\ a \in Range(adjacency_list[b])
    /\ \E a \in DOMAIN adjacency_list :
          adjacency_list[a] = <<>> /\ incoming_links[a] = <<>>

\* ------------------------------------------------------------------ C14
RECURSIVE AddDangling(_, _, _, _, _)
\* score plus damping_factor * current_scores[z] / num_nodes for every
\* node z of visit that has no outgoing link
AddDangling(score, visit, g, current_scores, damping_factor) ==
    IF visit = <<>> THEN score
    ELSE LET z == visit[1]
             share == FDivInt(FMul(damping_factor, current_scores[z]),
                              Len(g.node_order))
         IN AddDangling(IF g.adjacency_list[z] = <<>> THEN FAdd(score, share)
                        ELSE score,
                        Tail(visit), g, current_scores, damping_factor)

\* C14: in each iteration every node's new score holds, besides the base
\* term and the shares of its incoming links, damping_factor *
\* score / num_nodes of every dangling node (a node without outgoing link).
C14_DanglingMassRedistributed ==
    (frame.pc # "idle" /\ frame.executed >= 1) =>
        \A doc_id \in DOMAIN frame.new_scores :
            frame.new_scores[doc_id] =
                AddDangling(NodeScore(Graph, frame.prev_scores, doc_id,
                                      frame.p.damping_factor),
                            node_order, Graph, frame.prev_scores,
                            frame.p.damping_factor)

\* ------------------------------------------------------------------ C15
\* the scores of the iteration at which the loop stopped: the last
\* new_scores computed (the initial scores when no iteration ran)
StopIterate(f) == IF f.executed = 0 THEN f.current_scores ELSE f.new_scores

\* C15: after calculate_pagerank stops, get_authority_score returns for
\* every node the score of the iteration at which the computation stopped
\* (the first iterate whose largest change is below tolerance, or the
\* max_iterations-th iterate), and 0.0 for an id that was never added.
C15_ReturnsStopIterate ==
    frame.pc = "done" =>
        \A doc_id \in GraphDocs :
            get_authority_score(pagerank_scores, doc_id) =
                IF doc_id \in DOMAIN adjacency_list
                THEN StopIterate(frame)[doc_id]
                ELSE 0

\* ------------------------------------------------------------------ C16
\* what holds of a call of calculate_pagerank at every point: the number of
\* iterations executed, and the largest change each of them found
BoundedAndStopsFirst ==
    frame.pc # "idle" =>
        LET f == frame
            n == f.executed
        IN /\ n <= f.p.max_iterations
           /\ Len(f.diffs) = n
           /\ n >= 1 => f.diffs[n] = MaxDiff(f.new_scores, f.prev_scores)
           /\ \A i \in 1..(n - 1) : f.diffs[i] >= f.p.tolerance
           /\ f.pc = "loop" =>
                 /\ n < f.p.max_iterations
                 /\ n >= 1 => f.diffs[n] >= f.p.tolerance
           /\ f.pc \in {"exit", "done"} =>
                 IF node_order = <<>>
                 THEN n = 0 /\ f.pc = "done" /\ f.returned = EmptyDict
                 ELSE \/ n >= 1 /\ f.diffs[n] < f.p.tolerance
                      \/ n = f.p.max_iterations

\* C16: calculate_pagerank always terminates: it executes at most
\* max_iterations iterations, stops at the first iteration whose largest
\* change of a score is below tolerance, and on a graph without nodes
\* returns an empty map without iterating.
C16_Terminates ==
    /\ []BoundedAndStopsFirst
    /\ (frame.pc \in {"loop", "exit"}) ~> (frame.pc = "done")

\* a call with the default arguments has stopped on the tolerance after
\* several iterations, before max_iterations
C16_Witness ==
    /\ frame.pc = "done" /\ frame.p = DefaultParams
    /\ frame.broke
    /\ frame.executed > 2 /\ frame.executed < frame.p.max_iterations

\* ------------------------------------------------------------------ C17
\* C17 as stated: the scores do not depend on the order in which the nodes
\* are visited or on the order in which the edges were added: two runs
\* over the same edge set and arguments store identical scores.
C17_Original ==
    (frame.pc = "done" /\ frame.swapped) => pagerank_scores = frame.before

\* C17, amended: the scores do not depend on the order in which the nodes
\* are visited, and two runs over the same edge set and arguments store
\* identical scores when the edges were added in orders that give every
\* node the same list of incoming links.
C17_OrderIndependent ==
    (frame.pc = "done" /\ frame.swapped
        /\ incoming_links = frame.before_incoming)
    => pagerank_scores = frame.before

\* two runs with the default arguments that visit the nodes in different
\* orders, on graphs built from the same calls in different orders with
\* the same lists of incoming links, have ended after several iterations
C17_Witness ==
    /\ frame.pc = "done" /\ frame.swapped
    /\ frame.p = DefaultParams
    /\ incoming_links = frame.before_incoming
    /\ node_order # frame.before_order
    /\ frame.executed > 2
    /\ \E a, b \in DOMAIN pagerank_scores : pagerank_scores[a] # pagerank_scores[b]

\* ------------------------------------------------------------------ C18
\* the graph whose only edge is 1 -> 2
OnlyEdgeOneTwo ==
    /\ DOMAIN adjacency_list = {1, 2}
    /\ adjacency_list[1] = <<2>> /\ adjacency_list[2] = <<>>

\* C18: for the graph whose only edge is 1 -> 2, after calculate_pagerank
\* with the default arguments the score of document 2 is strictly greater
\* than the score of document 1.
C18_CitedScoresHigher ==
    (frame.pc = "done" /\ frame.p = DefaultParams /\ OnlyEdgeOneTwo)
    => /\ DOMAIN pagerank_scores = {1, 2}
       /\ get_authority_score(pagerank_scores, 2)
             > get_authority_score(pagerank_scores, 1)

\* calculate_pagerank has returned for that graph
C18_Witness ==
    /\ frame.pc = "done" /\ frame.p = DefaultParams /\ OnlyEdgeOneTwo
    /\ frame.executed >= 1
    /\ frame.returned = pagerank_scores

\* ------------------------------------------------------------------ C1
\* r lists the k smallest members of the set M of strings in ascending
\* order, or all of M when it has fewer than k members
IsSmallest(r, M, k) ==
    /\ Len(r) = (IF k < Cardinality(M) THEN k ELSE Cardinality(M))
    /\ \A i \in 1..Len(r) : r[i] \in M
    /\ \A i \in 1..(Len(r) - 1) : StrLess(r[i], r[i + 1])
    /\ \A m \in M \ Range(r) : \A i \in 1..Len(r) : StrLess(r[i], m)

\* C1 as stated: autocomplete(p, k) is the k smallest members of
\* {w in W : w starts with p}, W being the words passed to insert.
C1_Original ==
    \A p \in Strings(Chars, WordLens), k \in 0..MaxLimit :
        IsSmallest(Trie_autocomplete(trie, p, k),
                   {w \in inserted : StartsWith(w, p)}, k)

\* C1 (amended): for every set W of inserted words, prefix p and limit
\* k >= 0, autocomplete(p, k) returns in ascending order the k smallest
\* members (all, if fewer) of the case-folded words
\* {lower(w) : w in W, lower(w) starts with lower(p)}; it is empty when no
\* case-folded word starts with lower(p).
C1_AutocompleteSmallestFolded ==
    \A p \in Strings(Chars, WordLens), k \in 0..MaxLimit :
        LET M == {w \in {lower(x) : x \in inserted} : StartsWith(w, lower(p))}
            r == Trie_autocomplete(trie, p, k)
        IN /\ IsSmallest(r, M, k)
           /\ (M = {} => r = <<>>)

\* three words share a prefix, one of them was inserted in upper case, and a
\* limit of 2 cuts the sorted list
C1_Witness ==
    /\ Cardinality({lower(x) : x \in inserted}) = 3
    /\ \E x \in inserted : lower(x) # x
    /\ \E p \in Strings(Chars, {1}) :
          /\ Len(p) = 1
          /\ Len(Trie_autocomplete(trie, p, 3)) = 3
          /\ Len(Trie_autocomplete(trie, p, 2)) = 2

\* ------------------------------------------------------------------ C3
\* C3: sort_results returns a permutation of its input in non-increasing
\* score order in which records of equal score keep their input order.
C3_StableDescending ==
    sort_pc = "done" =>
        /\ Len(sort_out) = Len(sort_in)
        /\ \A i \in 1..Len(sort_in) :
              Cardinality({j \in 1..Len(sort_out) : sort_out[j] = sort_in[i]}) = 1
        /\ \A j \in 1..(Len(sort_out) - 1) :
              /\ sort_out[j].score >= sort_out[j + 1].score
              /\ (sort_out[j].score = sort_out[j + 1].score
                     => sort_out[j].pos < sort_out[j + 1].pos)

\* a sorted list of four records that had a tie and was out of order
C3_Witness ==
    /\ sort_pc = "done"
    /\ Len(sort_in) = 4
    /\ sort_out # sort_in
    /\ \E i, j \in 1..4 : i < j /\ sort_in[i].score = sort_in[j].score
    /\ \E i \in 1..3 : sort_in[i].score < sort_in[i + 1].score

\* ------------------------------------------------------- engine measures
\* the words the build phase put into the trie
Vocabulary == trie.ends

\* the tokenized text of an indexed document
DocTokens(doc_id) == tokenize(BPlusTree_search(nodes, root, doc_id).content)

Blank(s) == \A i \in 1..Len(s) : IsSpace(s[i])

IndexEntry(t) == IF t \in DOMAIN inverted_index THEN inverted_index[t] ELSE {}

\* ------------------------------------------------------------------ C4
\* C4: for a query whose first token is t, search returns exactly one
\* record for each document id of inverted_index[t] and none for any other
\* document, and the later tokens of the query have no effect.
C4_SearchByFirstToken ==
    (pc = "ready" /\ call.op = "search" /\ tokenize(call.arg) # <<>>) =>
        LET t == tokenize(call.arg)[1]
        IN /\ \A d \in IndexEntry(t) :
                 Cardinality({i \in 1..Len(results) : results[i].doc_id = d}) = 1
           /\ \A i \in 1..Len(results) : results[i].doc_id \in IndexEntry(t)
           /\ results = SearchEngine_search(t).results

\* the query "B a" was served: its first token selects some documents and
\* leaves out another that holds the second token
C4_Witness ==
    /\ pc = "ready" /\ call.op = "search"
    /\ Len(tokenize(call.arg)) = 2
    /\ Len(results) >= 1
    /\ \E d \in Range(doc_ids) :
          /\ d \notin {results[i].doc_id : i \in 1..Len(results)}
          /\ d \in IndexEntry(tokenize(call.arg)[2])

\* ------------------------------------------------------------------ C5
\* C5: every record returned by search has score = term_frequency +
\* authority_score, term_frequency being occurrences(term, doc) /
\* totalTokens(doc) and authority_score the graph's stored score of the
\* document; the records are in non-increasing order of score.
C5_ScoreAndOrder ==
    (pc = "ready" /\ call.op = "search") =>
        /\ \A i \in 1..Len(results) :
              LET r == results[i]
                  t == tokenize(call.arg)[1]
                  toks == DocTokens(r.doc_id)
              IN /\ r.term_frequency = FDivInt(FromInt(Count(toks, t)), Len(toks))
                 /\ r.authority_score =
                       (IF r.doc_id \in DOMAIN pagerank_scores
                        THEN pagerank_scores[r.doc_id] ELSE 0)
                 /\ r.score = FAdd(r.term_frequency, r.authority_score)
        /\ \A i \in 1..(Len(results) - 1) : results[i].score >= results[i + 1].score

\* a search returned documents of different scores, with nonzero authority,
\* in an order that is not the order of their ids
C5_Witness ==
    /\ pc = "ready" /\ call.op = "search"
    /\ Len(results) >= 2
    /\ results[1].score > results[Len(results)].score
    /\ results[1].doc_id > results[Len(results)].doc_id
    /\ results[1].authority_score > 0
    /\ results[1].term_frequency < One

\* ------------------------------------------------------------------ C6
\* C6 as stated: search and autocomplete return the empty list for a blank
\* argument, for a query with no alphanumeric token, for a term absent from
\* the inverted index and for a prefix no vocabulary word starts with.
C6_Original ==
    /\ (pc = "ready" /\ call.op = "search"
          /\ (\/ Blank(call.arg)
              \/ tokenize(call.arg) = <<>>
              \/ tokenize(call.arg)[1] \notin DOMAIN inverted_index))
         => results = <<>>
    /\ (pc = "ready" /\ call.op = "autocomplete"
          /\ (\/ Blank(call.arg)
              \/ ~\E w \in Vocabulary : StartsWith(w, call.arg)))
         => results = <<>>

\* C6 (amended): search and autocomplete return the empty list, without
\* raising, for a blank argument, for a query with no alphanumeric token,
\* for a term absent from the inverted index, and for a prefix whose
\* trimmed, lower-cased form no vocabulary word starts with.
C6_EmptyOnAbsentOrBlank ==
    /\ (pc = "ready" /\ call.op = "search"
          /\ (\/ Blank(call.arg)
              \/ tokenize(call.arg) = <<>>
              \/ tokenize(call.arg)[1] \notin DOMAIN inverted_index))
         => results = <<>>
    /\ (pc = "ready" /\ call.op = "autocomplete"
          /\ (\/ Blank(call.arg)
              \/ ~\E w \in Vocabulary : StartsWith(w, lower(strip(call.arg)))))
         => results = <<>>

\* autocomplete was called with a blank prefix on an engine whose
\* vocabulary is not empty
C6_Witness ==
    /\ pc = "ready" /\ call.op = "autocomplete"
    /\ Blank(call.arg)
    /\ Cardinality(Vocabulary) >= 3
    /\ results = <<>>

\* ------------------------------------------------------------------ C7
\* what a call returns when it is evaluated on the current state
ResultOfCall(c) ==
    IF c.op = "search" THEN SearchEngine_search(c.arg).results
    ELSE SearchEngine_autocomplete(c.arg)

NoCitationEdges == \A d \in DOMAIN adjacency_list : adjacency_list[d] = <<>>

\* C19: for an indexed corpus with no citation edges, after the authority
\* scores are computed every document's authority score is the same nonzero
\* value, so that search results are ranked by term frequency alone.
C19_EqualNonzeroAuthority ==
    (pc = "ready" /\ doc_ids # <<>> /\ NoCitationEdges) =>
        LET v == get_authority_score(pagerank_scores, doc_ids[1])
        IN /\ v # 0
           /\ \A d \in Range(doc_ids) : get_authority_score(pagerank_scores, d) = v
           /\ call.op = "search" =>
                 /\ \A i \in 1..Len(results) : results[i].authority_score = v
                 /\ \A i \in 1..(Len(results) - 1) :
                       results[i].term_frequency >= results[i + 1].term_frequency

\* ------------------------------------------------------------------ C20
\* C20: Trie.insert is idempotent: inserting a word that is already in the
\* trie, in any letter case, leaves the nodes and the end-of-word marks
\* unchanged, and no autocomplete result holds the same word twice.
C20_InsertIdempotent ==
    /\ [][tlast'.repeated => (trie'.nodes = trie.nodes /\ trie'.ends = trie.ends)]_vars
    /\ [](\A p \in Strings(Chars, WordLens), k \in 0..(MaxWords + 1) :
             NoDuplicates(Trie_autocomplete(trie, p, k)))

\* a two-letter word that the trie already held in lower case was inserted
\* again with an upper-case letter, and an autocomplete lists it once beside
\* another word
C20_Witness ==
    /\ tlast.called /\ tlast.repeated
    /\ Len(tlast.word) = 2
    /\ tlast.word # lower(tlast.word)
    /\ lower(tlast.word) \in inserted
    /\ \E p \in Strings(Chars, WordLens) :
          LET r == Trie_autocomplete(trie, p, MaxWords)
          IN Len(r) >= 2 /\ lower(tlast.word) \in Range(r)

\* ------------------------------------------------------------------ C21
\* the terms looked at: the tokens of the texts and of the queries, and
\* every key of the inverted index
Terms ==
    UNION {Range(tokenize(t)) : t \in FileTexts \cup Queries}
        \cup DOMAIN inverted_index

\* C21: after the build phase, for every term T and document id D: D is in
\* inverted_index[T] if and only if T occurs in the tokenized text of
\* document D, if and only if doc_term_frequency[D][T] >= 1.
C21_IndexMatchesText ==
    (pc # "load" \/ files = <<>>) =>
        /\ \A T \in Terms : IndexEntry(T) \subseteq Range(doc_ids)
        /\ DOMAIN doc_term_frequency = Range(doc_ids)
        /\ \A T \in Terms, D \in Range(doc_ids) :
              LET listed == D \in IndexEntry(T)
                  occurs == T \in Range(DocTokens(D))
                  counted == /\ T \in DOMAIN doc_term_frequency[D]
                             /\ doc_term_frequency[D][T] >= 1
              IN (listed <=> occurs) /\ (occurs <=> counted)

\* three documents are indexed; a term occurs twice in one of them, and a
\* term that is indexed does not occur in one of them
C21_Witness ==
    /\ pc = "ready" /\ Len(doc_ids) = 3
    /\ \E T \in Terms, D \in Range(doc_ids) : Count(DocTokens(D), T) = 2
    /\ \E T \in Terms, E \in Range(doc_ids) :
          IndexEntry(T) # {} /\ E \notin IndexEntry(T)

\* ------------------------------------------------------------------ C22
\* the metadata the B+Tree holds for doc_id in the current state
MetadataOf(doc_id) == BPlusTree_search(nodes, root, doc_id)

\* the ids are 1..n in order, the B+Tree and the term frequencies hold
\* exactly these ids, and the documents kept their listing order
IdsAreOneToN ==
    LET n == Len(doc_ids)
    IN /\ doc_ids = [i \in 1..n |-> i]
       /\ DOMAIN doc_term_frequency = 1..n
       /\ \A k \in 0..(MaxFiles + 1) : (MetadataOf(k) # NoValue) <=> (k \in 1..n)
       /\ \A i, j \in 1..n :
             i < j => MetadataOf(i).file_path < MetadataOf(j).file_path
       /\ \A i \in 1..n, j \in 1..Len(files) :
             MetadataOf(i).file_path < files[j].name

\* a step of the load loop either indexes nothing, or gives the next id to
\* the file it read and leaves every earlier document as it was
LoadGivesNextId ==
    LET n == Len(doc_ids)
        f == Head(files)
    IN \/ doc_ids' = doc_ids /\ nodes' = nodes /\ root' = root
       \/ /\ files # <<>> /\ f.readable
          /\ doc_ids' = Append(doc_ids, n + 1)
          /\ BPlusTree_search(nodes', root', n + 1) =
                [title |-> f.name, file_path |-> f.name, url |-> f.name,
                 word_count |-> Len(tokenize(f.text)), content |-> f.text]
          /\ \A i \in 1..n :
                BPlusTree_search(nodes', root', i) = MetadataOf(i)

\* C22: document ids are assigned sequentially from 1 in ingestion order;
\* after any sequence of loads, some of which may fail, the ids are exactly
\* 1..n with no gap and no duplicate, n being the number of documents
\* successfully indexed, and each id maps in the B+Tree to the metadata of
\* exactly the document that received it.
C22_SequentialIds == [](IdsAreOneToN) /\ [][LoadGivesNextId]_vars

\* the listing ended after two documents were indexed around a file that
\* could not be read
C22_Witness ==
    /\ files = <<>> /\ doc_ids = <<1, 2>>
    /\ MetadataOf(1).file_path = 1 /\ MetadataOf(2).file_path = 3

\* ------------------------------------------------------------------ C23
\* _generate_citations has returned
CitationsDone == pc \in {"rank", "ready"}

\* C23: for every corpus of at least 2 indexed documents, citation generation
\* completes without error and gives each document between 2 and 4 outgoing
\* citations, all to distinct documents other than itself.
C23_CitationsComplete ==
    (files = <<>> /\ Len(doc_ids) >= 2) =>
        /\ pc # "crashed"
        /\ CitationsDone =>
              \A d \in Range(doc_ids) :
                 /\ d \in DOMAIN adjacency_list
                 /\ Len(adjacency_list[d]) \in 2..4
                 /\ Cardinality(Range(adjacency_list[d])) = Len(adjacency_list[d])
                 /\ Range(adjacency_list[d]) \subseteq Range(doc_ids) \ {d}

\* ------------------------------------------------------------------ C24
\* the keys print_results reads from every result record
PrintedFields ==
    {"title", "doc_id", "file_path", "score", "term_frequency", "authority_score"}

\* print_results(results) returns without KeyError
PrintsWithoutRaising(rs) ==
    \A i \in 1..Len(rs) : PrintedFields \subseteq DOMAIN rs[i]

\* C24: every result record of search carries the fields doc_id, title,
\* file_path, score, term_frequency and authority_score, so that the CLI's
\* print_results prints every non-empty result list without raising.
C24_ResultsPrintable ==
    (call.op = "search" /\ results # <<>>) => PrintsWithoutRaising(results)

\* ------------------------------------------------------------------ C25
RECURSIVE KeysUnder(_, _)
\* the keys stored in the leaves of the subtree of node n
KeysUnder(h, n) ==
    IF h[n].kind = "leaf" THEN Range(h[n].keys)
    ELSE UNION {KeysUnder(h, c) : c \in Range(h[n].children)}

RECURSIVE LeafDepths(_, _)
\* the depths, counted from node n, at which the leaves of its subtree lie
LeafDepths(h, n) ==
    IF h[n].kind = "leaf" THEN {1}
    ELSE {1 + d : d \in UNION {LeafDepths(h, c) : c \in Range(h[n].children)}}

RECURSIVE DescentLeaf(_, _, _)
\* the leaf the descent of search/insert reaches for key
DescentLeaf(h, n, key) ==
    IF h[n].kind = "leaf" THEN n
    ELSE DescentLeaf(h, h[n].children[find_child_index(h[n].keys, key) + 1], key)

\* C25: in every state reachable by B+Tree inserts, each separator key k at
\* position i of an internal node bounds its neighbours (every key under
\* child i is less than k, every key under child i+1 is at least k), so the
\* descent by find_child_index reaches the one leaf that holds the key; and
\* all leaves are at the same depth.
C25_SeparatorsBound ==
    /\ \A n \in Internals :
          /\ Len(nodes[n].children) = Len(nodes[n].keys) + 1
          /\ \A i \in 1..Len(nodes[n].keys) :
                /\ \A k \in KeysUnder(nodes, nodes[n].children[i]) :
                      k < nodes[n].keys[i]
                /\ \A k \in KeysUnder(nodes, nodes[n].children[i + 1]) :
                      k >= nodes[n].keys[i]
    /\ \A k \in StoredKeys :
          /\ k \in Range(nodes[DescentLeaf(nodes, root, k)].keys)
          /\ \A n \in Leaves :
                k \in Range(nodes[n].keys) => n = DescentLeaf(nodes, root, k)
    /\ Cardinality(LeafDepths(nodes, root)) = 1

\* a tree of height 3 with leaves under different parents, in which a
\* separator is itself a stored key with keys on both of its sides
C25_Witness ==
    /\ Height(nodes, root) = 3
    /\ \E n \in Internals, i \in 1..MaxKey :
          /\ i <= Len(nodes[n].keys)
          /\ nodes[n].keys[i] \in StoredKeys
          /\ KeysUnder(nodes, nodes[n].children[i]) # {}
          /\ nodes[n].keys[i] \in KeysUnder(nodes, nodes[n].children[i + 1])

====
